---- MODULE Spec2Model ----
(***************************************************************************)
(* Bundle-size tracking scripts of codex-pocket:                           *)
(*   scripts/generate-baseline.py  normalize() and main()                  *)
(*   analyze_report.py             the report summarizer                   *)
(* File names are sequences of one-character strings.                      *)
(***************************************************************************)
EXTENDS Integers, Sequences, FiniteSets, TLC

VARIABLES
    \* normalize() applied to generated file names
    npc, ntoks, nname, nout, nout2,
    \* generate-baseline.py main()
    bpc, assets, dirEntries, priorFile, baselineFile, listing, idx, chunks,
    baseline, bexit, bout, braised,
    \* analyze_report.py
    rpc, reportFile, rbatches, rout, rexit, rraised, rexc

nvars == <<npc, ntoks, nname, nout, nout2>>
bvars == <<bpc, assets, dirEntries, priorFile, baselineFile, listing, idx,
           chunks, baseline, bexit, bout, braised>>
rvars == <<rpc, reportFile, rbatches, rout, rexit, rraised, rexc>>
vars == <<nvars, bvars, rvars>>

(***************************************************************************)
(* Bounds of the model.                                                    *)
(***************************************************************************)
\* tokens concatenated into one generated file name
MaxTokens == 5
\* entries of the scanned directory
MaxEntries == 3
\* batches of chunk entries appended to a generated report
MaxBatches == 3

(***************************************************************************)
(* Characters.                                                             *)
(***************************************************************************)
Upper == {"A", "B", "C", "D", "E", "F", "G", "H", "I", "J", "K", "L", "M",
          "N", "O", "P", "Q", "R", "S", "T", "U", "V", "W", "X", "Y", "Z"}
Lower == {"a", "b", "c", "d", "e", "f", "g", "h", "i", "j", "k", "l", "m",
          "n", "o", "p", "q", "r", "s", "t", "u", "v", "w", "x", "y", "z"}
Digit == {"0", "1", "2", "3", "4", "5", "6", "7", "8", "9"}

\* [A-Z0-9]: the one-character marker segment
MarkerChars == Upper \cup Digit
\* [A-Za-z0-9_-]: the characters of the hash token
HashChars == Upper \cup Lower \cup Digit \cup {"_", "-"}
\* {6,}: the least length of the hash token
MinHashLen == 6

(***************************************************************************)
(* os.path.splitext (posixpath: sep "/", extsep "."): the extension starts *)
(* at the last dot of the last path component, unless only dots precede it *)
(* in that component.                                                      *)
(***************************************************************************)
LastIndexOf(s, c) ==
    IF \E i \in 1..Len(s) : s[i] = c
    THEN CHOOSE i \in 1..Len(s) : s[i] = c /\ \A j \in (i+1)..Len(s) : s[j] # c
    ELSE 0

splitext(p) ==
    LET sepIndex == LastIndexOf(p, "/")
        dotIndex == LastIndexOf(p, ".")
    IN  IF /\ dotIndex > sepIndex
           /\ \E j \in (sepIndex+1)..(dotIndex-1) : p[j] # "."
        THEN <<SubSeq(p, 1, dotIndex-1), SubSeq(p, dotIndex, Len(p))>>
        ELSE <<p, <<>> >>

(***************************************************************************)
(* re.match(r"^(.*?)(?:-[A-Z0-9])?-[A-Za-z0-9_-]{6,}$", base)              *)
(***************************************************************************)
\* -[A-Za-z0-9_-]{6,}$ at position q of s
HashAt(s, q) ==
    /\ q >= 1 /\ q <= Len(s)
    /\ s[q] = "-"
    /\ Len(s) - q >= MinHashLen
    /\ \A j \in (q+1)..Len(s) : s[j] \in HashChars

\* (?:-[A-Z0-9])?-[A-Za-z0-9_-]{6,}$ at position q of s
TailAt(s, q) ==
    \/ /\ q + 1 <= Len(s)
       /\ s[q] = "-"
       /\ s[q+1] \in MarkerChars
       /\ HashAt(s, q + 2)
    \/ HashAt(s, q)

\* The length of group 1, the lazy prefix (.*?): the shortest prefix after
\* which the rest of the pattern matches; -1 when there is no match.
MatchPrefixLen(s) ==
    IF \E i \in 0..Len(s) : TailAt(s, i + 1)
    THEN CHOOSE i \in 0..Len(s) :
            /\ TailAt(s, i + 1)
            /\ \A j \in 0..(i-1) : ~TailAt(s, j + 1)
    ELSE -1

normalize(name) ==
    LET se == splitext(name)
        base == se[1]
        ext == se[2]
        m == MatchPrefixLen(base)
    IN  IF m >= 0 THEN SubSeq(base, 1, m) \o ext ELSE base \o ext

(***************************************************************************)
(* File names given to normalize(): concatenations of up to MaxTokens      *)
(* tokens.                                                                 *)
(***************************************************************************)
HashToken == <<"a", "1", "b", "2", "c", "3">>
Tokens == { <<"-">>, <<".">>, <<"x">>, <<"A">>, <<"_">>, <<"+">>,
            HashToken, <<".", "j", "s">> }

NIdle ==
    /\ npc = "idle" /\ ntoks = 0 /\ nname = <<>> /\ nout = <<>> /\ nout2 = <<>>

NInit ==
    /\ npc = "input" /\ ntoks = 0 /\ nname = <<>> /\ nout = <<>> /\ nout2 = <<>>

AppendToken ==
    /\ npc = "input"
    /\ ntoks < MaxTokens
    /\ \E t \in Tokens : nname' = nname \o t
    /\ ntoks' = ntoks + 1
    /\ UNCHANGED <<npc, nout, nout2>>

\* norm = normalize(name)
Normalize ==
    /\ npc = "input"
    /\ nout' = normalize(nname)
    /\ npc' = "normalized"
    /\ UNCHANGED <<ntoks, nname, nout2>>

\* normalize applied to its own result
NormalizeAgain ==
    /\ npc = "normalized"
    /\ nout2' = normalize(nout)
    /\ npc' = "renormalized"
    /\ UNCHANGED <<ntoks, nname, nout>>

NNext ==
    \/ AppendToken /\ UNCHANGED <<bvars, rvars>>
    \/ Normalize /\ UNCHANGED <<bvars, rvars>>
    \/ NormalizeAgain /\ UNCHANGED <<bvars, rvars>>

(***************************************************************************)
(* generate-baseline.py: the scanned directory and the baseline file.      *)
(***************************************************************************)
ASSETS_DIR == "dist/assets"
BASELINE_PATH == ".bundlesize.baseline.json"

FooA == <<"f","o","o","-","1","1","1","1","1","1",".","j","s">>
FooB == <<"f","o","o","-","2","2","2","2","2","2",".","j","s">>
BarCss == <<"b","a","r",".","c","s","s">>
Readme == <<"r","e","a","d","m","e",".","t","x","t">>
LibDir == <<"l","i","b","-","a","b","c","d","e","f",".","j","s">>
FooJs == <<"f","o","o",".","j","s">>

\* The candidate directory entries, in a fixed reference order; LibDir is a
\* subdirectory whose name carries a tracked extension.
UniverseSeq == <<FooA, FooB, BarCss, Readme, LibDir>>
Universe == {UniverseSeq[i] : i \in 1..Len(UniverseSeq)}
KindOf(name) == IF name = LibDir THEN "dir" ELSE "file"
SizeChoices == {0, 50, 100}
Timestamps == {1, 2}

EmptyChunks == [k \in {} |-> 0]
NoDoc == [generatedAt |-> 0, chunks |-> EmptyChunks, total |-> 0]
NoEntries == [n \in {} |-> [kind |-> "file", size |-> 0]]

\* A baseline written by an earlier run.
PriorDoc == [generatedAt |-> 0, chunks |-> (FooJs :> 120), total |-> 120]

\* The serialized document, counted in units: one per chunk key, one for
\* generatedAt, one for total.
DocUnits(doc) == Cardinality(DOMAIN doc.chunks) + 2

Absent == [kind |-> "absent", of |-> NoDoc, units |-> 0]
FileOf(doc, n) == [kind |-> "data", of |-> doc, units |-> n]
Complete(f) == f.kind = "data" /\ f.units = DocUnits(f.of)

EndsWith(s, suffix) ==
    /\ Len(s) >= Len(suffix)
    /\ SubSeq(s, Len(s) - Len(suffix) + 1, Len(s)) = suffix

\* name.endswith(".js") or name.endswith(".css")
HasTrackedExt(name) ==
    EndsWith(name, <<".", "j", "s">>) \/ EndsWith(name, <<".", "c", "s", "s">>)

\* Mutant: chunks[norm] = size, a later file overwrites an earlier one.
AccumulateOverwrite(ch, norm, size) ==
    [k \in DOMAIN ch \cup {norm} |-> IF k = norm THEN size ELSE ch[k]]

\* chunks[norm] = chunks.get(norm, 0) + size
Accumulate(ch, norm, size) ==
    [k \in DOMAIN ch \cup {norm} |->
        IF k = norm
        THEN (IF norm \in DOMAIN ch THEN ch[norm] ELSE 0) + size
        ELSE ch[k]]

\* Mutant: the os.path.isfile test is left out.
ScanStepNoIsFile(ch, name, e) ==
    IF ~HasTrackedExt(name) THEN ch
    ELSE Accumulate(ch, normalize(name), e.size)

\* One iteration of the scan loop over the entry `name`.
ScanStep(ch, name, e) ==
    IF ~HasTrackedExt(name) THEN ch
    ELSE IF e.kind # "file" THEN ch
    ELSE Accumulate(ch, normalize(name), e.size)

RECURSIVE SumValues(_)
\* sum(chunks.values())
SumValues(f) ==
    IF DOMAIN f = {} THEN 0
    ELSE LET k == CHOOSE x \in DOMAIN f : TRUE
         IN  f[k] + SumValues([x \in DOMAIN f \ {k} |-> f[x]])

\* Mutant: total is the number of chunks, not the sum of their sizes.
BaselineDocCountTotal(ch, t) ==
    [generatedAt |-> t, chunks |-> ch, total |-> Cardinality(DOMAIN ch)]

\* The baseline document built in memory.
BaselineDoc(ch, t) ==
    [generatedAt |-> t, chunks |-> ch, total |-> SumValues(ch)]

\* os.listdir returns every entry once, in arbitrary order.
Listings(S) ==
    {f \in [1..Cardinality(S) -> S] : \A i, j \in DOMAIN f : i # j => f[i] # f[j]}

MissingDirLine == <<"Error: not found. Run 'bun run build' first.", ASSETS_DIR>>

BIdle ==
    /\ bpc = "idle" /\ assets = "absent" /\ dirEntries = NoEntries
    /\ priorFile = Absent /\ baselineFile = Absent /\ listing = <<>> /\ idx = 0
    /\ chunks = EmptyChunks /\ baseline = NoDoc /\ bexit = -1 /\ bout = <<>>
    /\ braised = FALSE

BInit ==
    /\ bpc = "start"
    /\ assets \in {"absent", "file", "dir"}
    /\ \/ /\ assets = "dir"
          /\ \E S \in SUBSET Universe :
                /\ Cardinality(S) <= MaxEntries
                /\ dirEntries \in
                     [S -> [kind : {"file", "dir"}, size : SizeChoices]]
                /\ \A n \in S :
                     /\ dirEntries[n].kind = KindOf(n)
                     /\ dirEntries[n].kind = "dir" => dirEntries[n].size = 100
       \/ /\ assets # "dir"
          /\ dirEntries = NoEntries
    /\ priorFile \in {Absent, FileOf(PriorDoc, DocUnits(PriorDoc))}
    /\ baselineFile = priorFile
    /\ listing = <<>> /\ idx = 0
    /\ chunks = EmptyChunks /\ baseline = NoDoc /\ bexit = -1 /\ bout = <<>>
    /\ braised = FALSE

\* An exception leaves main(): the interpreter prints a traceback and the
\* process exits with status 1.
Unhandled ==
    /\ braised' = TRUE
    /\ bexit' = 1
    /\ bout' = bout \o <<"Traceback (most recent call last):", "  File ...", "OSError">>
    /\ bpc' = "exited"

\* Mutant: the baseline file is opened for writing before the directory
\* is tested.
CheckDirMissingAfterOpen ==
    /\ bpc = "start"
    /\ assets # "dir"
    /\ baselineFile' = FileOf(NoDoc, 0)
    /\ bout' = bout \o <<MissingDirLine>>
    /\ bexit' = 1
    /\ bpc' = "exited"
    /\ UNCHANGED <<assets, dirEntries, priorFile, listing, idx, chunks, baseline,
                   braised>>

\* if not os.path.isdir(ASSETS_DIR): print(...); return 1
CheckDirMissing ==
    /\ bpc = "start"
    /\ assets # "dir"
    /\ bout' = bout \o <<MissingDirLine>>
    /\ bexit' = 1
    /\ bpc' = "exited"
    /\ UNCHANGED <<assets, dirEntries, priorFile, baselineFile, listing, idx,
                   chunks, baseline, braised>>

\* chunks = {}; os.listdir(ASSETS_DIR)
ListDir ==
    /\ bpc = "start"
    /\ assets = "dir"
    /\ listing' \in Listings(DOMAIN dirEntries)
    /\ idx' = 1
    /\ chunks' = EmptyChunks
    /\ bpc' = "scan"
    /\ UNCHANGED <<assets, dirEntries, priorFile, baselineFile, baseline, bexit,
                   bout, braised>>

\* os.listdir raises (the directory is unreadable)
ListDirFail ==
    /\ bpc = "start"
    /\ assets = "dir"
    /\ Unhandled
    /\ UNCHANGED <<assets, dirEntries, priorFile, baselineFile, listing, idx,
                   chunks, baseline>>

\* the body of the for loop, for the next listed name
ScanEntry ==
    /\ bpc = "scan"
    /\ idx <= Len(listing)
    /\ chunks' = ScanStep(chunks, listing[idx], dirEntries[listing[idx]])
    /\ idx' = idx + 1
    /\ UNCHANGED <<bpc, assets, dirEntries, priorFile, baselineFile, listing,
                   baseline, bexit, bout, braised>>

\* os.path.getsize raises on a tracked regular file
GetSizeFail ==
    /\ bpc = "scan"
    /\ idx <= Len(listing)
    /\ HasTrackedExt(listing[idx])
    /\ dirEntries[listing[idx]].kind = "file"
    /\ Unhandled
    /\ UNCHANGED <<assets, dirEntries, priorFile, baselineFile, listing, idx,
                   chunks, baseline>>

\* baseline = {...}
BuildBaseline ==
    /\ bpc = "scan"
    /\ idx > Len(listing)
    /\ \E t \in Timestamps : baseline' = BaselineDoc(chunks, t)
    /\ bpc' = "built"
    /\ UNCHANGED <<assets, dirEntries, priorFile, baselineFile, listing, idx,
                   chunks, bexit, bout, braised>>

\* open(BASELINE_PATH, "w"): the file is created or truncated
OpenBaseline ==
    /\ bpc = "built"
    /\ baselineFile' = FileOf(baseline, 0)
    /\ bpc' = "writing"
    /\ UNCHANGED <<assets, dirEntries, priorFile, listing, idx, chunks, baseline,
                   bexit, bout, braised>>

\* open raises (the path is not writable)
OpenFail ==
    /\ bpc = "built"
    /\ Unhandled
    /\ UNCHANGED <<assets, dirEntries, priorFile, baselineFile, listing, idx,
                   chunks, baseline>>

\* json.dump: part of the buffered text reaches the file
DumpFlush ==
    /\ bpc = "writing"
    /\ baselineFile.units < DocUnits(baseline)
    /\ baselineFile' = FileOf(baseline, baselineFile.units + 1)
    /\ UNCHANGED <<bpc, assets, dirEntries, priorFile, listing, idx, chunks,
                   baseline, bexit, bout, braised>>

\* a write raises (the disk is full)
WriteFail ==
    /\ bpc = "writing"
    /\ baselineFile.units < DocUnits(baseline)
    /\ Unhandled
    /\ UNCHANGED <<assets, dirEntries, priorFile, baselineFile, listing, idx,
                   chunks, baseline>>

\* the with block ends: the rest is flushed and the file closed
CloseBaseline ==
    /\ bpc = "writing"
    /\ baselineFile' = FileOf(baseline, DocUnits(baseline))
    /\ bpc' = "written"
    /\ UNCHANGED <<assets, dirEntries, priorFile, listing, idx, chunks, baseline,
                   bexit, bout, braised>>

\* the three summary lines are printed, return 0
ReportSuccess ==
    /\ bpc = "written"
    /\ bout' = bout \o << <<"Baseline generated", BASELINE_PATH>>,
                          <<"Total chunks", Cardinality(DOMAIN chunks)>>,
                          <<"Total size", baseline.total>> >>
    /\ bexit' = 0
    /\ bpc' = "exited"
    /\ UNCHANGED <<assets, dirEntries, priorFile, baselineFile, listing, idx,
                   chunks, baseline, braised>>

\* print raises (standard output cannot encode the check mark, or is closed)
PrintFail ==
    /\ bpc = "written"
    /\ Unhandled
    /\ UNCHANGED <<assets, dirEntries, priorFile, baselineFile, listing, idx,
                   chunks, baseline>>

BNext ==
    \/ CheckDirMissing /\ UNCHANGED <<nvars, rvars>>
    \/ ListDir /\ UNCHANGED <<nvars, rvars>>
    \/ ListDirFail /\ UNCHANGED <<nvars, rvars>>
    \/ ScanEntry /\ UNCHANGED <<nvars, rvars>>
    \/ GetSizeFail /\ UNCHANGED <<nvars, rvars>>
    \/ BuildBaseline /\ UNCHANGED <<nvars, rvars>>
    \/ OpenBaseline /\ UNCHANGED <<nvars, rvars>>
    \/ OpenFail /\ UNCHANGED <<nvars, rvars>>
    \/ DumpFlush /\ UNCHANGED <<nvars, rvars>>
    \/ WriteFail /\ UNCHANGED <<nvars, rvars>>
    \/ CloseBaseline /\ UNCHANGED <<nvars, rvars>>
    \/ ReportSuccess /\ UNCHANGED <<nvars, rvars>>
    \/ PrintFail /\ UNCHANGED <<nvars, rvars>>

(***************************************************************************)
(* analyze_report.py: the report document and the summary printed.         *)
(* A JSON number or string is a record [t, v]; a chunk entry records what  *)
(* the script reads of it.  A printed line is a record of the values it    *)
(* shows; the text formatting of numbers is not modelled.                  *)
(***************************************************************************)
REPORT_PATH == ".bundlesize.report.json"
\* failing_chunks[:50]
TopN == 50
\* the print calls before the chunk lines
HeaderLines == 6

JInt(n) == [t |-> "int", v |-> n]
JStr == [t |-> "str", v |-> 0]
Side(kind, total) == [kind |-> kind, totalBytes |-> total]

Entry(name, shape, status, b, c, bytesOk, pctOk) ==
    [name |-> name, shape |-> shape, status |-> status, baselineBytes |-> b,
     currentBytes |-> c, bytesOk |-> bytesOk, pctOk |-> pctOk]

\* The kinds of chunk entry a generated report holds.
EntryTypes == {"pass300", "warn100", "fail300", "failMinus300", "nonobject",
               "failBadPct", "warnBadBytes"}

EntryOfType(ty, name) ==
    CASE ty = "pass300" -> Entry(name, "object", "pass", 1000, 1300, TRUE, TRUE)
      [] ty = "warn100" -> Entry(name, "object", "warn", 1000, 1100, TRUE, TRUE)
      [] ty = "fail300" -> Entry(name, "object", "fail", 1000, 1300, TRUE, TRUE)
      [] ty = "failMinus300" -> Entry(name, "object", "fail", 1000, 700, TRUE, TRUE)
      [] ty = "nonobject" -> Entry(name, "nonobject", "absent", 0, 0, TRUE, TRUE)
      [] ty = "failBadPct" -> Entry(name, "object", "fail", 1000, 1200, TRUE, FALSE)
      [] ty = "warnBadBytes" -> Entry(name, "object", "warn", 0, 0, FALSE, TRUE)

Report(state, top, status, b, c, chunksKind) ==
    [state |-> state, top |-> top, status |-> status, baseline |-> b,
     current |-> c, chunksKind |-> chunksKind, chunks |-> <<>>]

GoodBase ==
    Report("json", "object", "fail", Side("object", JInt(1000)),
           Side("object", JInt(1300)), "object")

BaseReports ==
    { GoodBase,
      Report("missing", "object", "absent", Side("absent", JInt(0)),
             Side("absent", JInt(0)), "absent"),
      Report("invalid", "object", "absent", Side("absent", JInt(0)),
             Side("absent", JInt(0)), "absent"),
      Report("json", "array", "absent", Side("absent", JInt(0)),
             Side("absent", JInt(0)), "absent"),
      Report("json", "object", "absent", Side("absent", JInt(0)),
             Side("object", JInt(1300)), "absent"),
      Report("json", "object", "warn", Side("nonobject", JInt(0)),
             Side("object", JInt(1300)), "object"),
      Report("json", "object", "warn", Side("object", JStr),
             Side("object", JInt(1300)), "object"),
      Report("json", "object", "pass", Side("object", JInt(1000)),
             Side("object", JInt(1300)), "nonobject") }

\* The sizes of a batch of entries: one, or enough for two batches to exceed
\* the cap on printed lines.
BatchSizes == {1, TopN \div 2 + 1}

Abs(x) == IF x < 0 THEN -x ELSE x
Min(a, b) == IF a < b THEN a ELSE b

\* x.get('totalBytes', 0) of report.get(side, {})
TotalOf(side) == IF side.kind = "absent" THEN JInt(0) ELSE side.totalBytes

\* The exception raised before the first print, "none" when there is none.
PreHeaderExc(rf) ==
    CASE rf.state = "missing" -> "FileNotFoundError"
      [] rf.state = "invalid" -> "JSONDecodeError"
      [] rf.top # "object" -> "AttributeError"
      [] rf.baseline.kind = "nonobject" \/ rf.current.kind = "nonobject" ->
            "AttributeError"
      [] TotalOf(rf.baseline).t # "int" \/ TotalOf(rf.current).t # "int" ->
            "TypeError"
      [] OTHER -> "none"

\* The six lines printed first.
Header(rf) ==
    LET tb == TotalOf(rf.baseline).v
        tc == TotalOf(rf.current).v
        d == tc - tb
    IN  << [kind |-> "status", value |-> IF rf.status = "absent" THEN "unknown" ELSE rf.status],
           [kind |-> "totalBaseline", value |-> tb],
           [kind |-> "totalCurrent", value |-> tc],
           [kind |-> "totalDelta", value |-> d,
            pct |-> IF tb > 0 THEN <<d, tb>> ELSE <<0, 1>>],
           [kind |-> "blank"],
           [kind |-> "heading"] >>

\* for name, chunk in chunks.items(): if chunk.get('status') in ['fail', 'warn']
IsFailing(e) == e.status \in {"fail", "warn"}
FailingChunks(cs) == SelectSeq(cs, IsFailing)

\* key=lambda x: abs(x[1].get('currentBytes', 0) - x[1].get('baselineBytes', 0))
SortKey(e) == Abs(e.currentBytes - e.baselineBytes)

RECURSIVE SortDescBy(_, _)
\* list.sort(key=..., reverse=True) is stable: the entries of each key keep
\* their order, the keys come in descending order.
SortDescBy(seq, keys) ==
    IF keys = {} THEN <<>>
    ELSE LET k == CHOOSE x \in keys : \A y \in keys : x >= y
         IN  SelectSeq(seq, LAMBDA e : SortKey(e) = k) \o SortDescBy(seq, keys \ {k})

\* Mutant: the key is the signed delta, abs() is left out.
RECURSIVE SortDescBySigned(_, _)
SortDescBySigned(seq, keys) ==
    IF keys = {} THEN <<>>
    ELSE LET k == CHOOSE x \in keys : \A y \in keys : x >= y
         IN  SelectSeq(seq, LAMBDA e : e.currentBytes - e.baselineBytes = k)
                \o SortDescBySigned(seq, keys \ {k})
SortFailingSigned(seq) ==
    SortDescBySigned(seq, {seq[i].currentBytes - seq[i].baselineBytes : i \in 1..Len(seq)})

SortFailing(seq) == SortDescBy(seq, {SortKey(seq[i]) : i \in 1..Len(seq)})

ChunkLine(e) ==
    [kind |-> "chunk", name |-> e.name, status |-> e.status,
     baselineBytes |-> e.baselineBytes, currentBytes |-> e.currentBytes,
     delta |-> e.currentBytes - e.baselineBytes]

\* What the chunk part of the script prints and the exception that ends it.
ChunkPart(rf) ==
    IF rf.chunksKind = "nonobject" THEN [lines |-> <<>>, exc |-> "AttributeError"]
    ELSE IF \E i \in 1..Len(rf.chunks) : rf.chunks[i].shape # "object"
    THEN [lines |-> <<>>, exc |-> "AttributeError"]
    ELSE LET failing == FailingChunks(rf.chunks)
         IN  IF \E i \in 1..Len(failing) : ~failing[i].bytesOk
             THEN [lines |-> <<>>, exc |-> "TypeError"]
             ELSE LET shown == SubSeq(SortFailing(failing), 1, Min(TopN, Len(failing)))
                      bad == {i \in 1..Len(shown) : ~shown[i].pctOk}
                      stop == IF bad = {} THEN Len(shown) + 1
                              ELSE CHOOSE i \in bad : \A j \in bad : i <= j
                  IN  [lines |-> [i \in 1..(stop - 1) |-> ChunkLine(shown[i])],
                       exc |-> IF bad = {} THEN "none" ELSE "ValueError"]

\* except Exception: the classes of every exception the script can raise
ExceptionClasses ==
    {"FileNotFoundError", "JSONDecodeError", "AttributeError", "TypeError",
     "ValueError"}
\* Mutant: except FileNotFoundError
CaughtOnlyMissingFile(exc) == exc = "FileNotFoundError"
Caught(exc) == exc \in ExceptionClasses

ErrorLine(exc) == [kind |-> "error", exc |-> exc]

\* The whole run: [out, exc].
RunReport(rf) ==
    IF PreHeaderExc(rf) # "none" THEN [out |-> <<>>, exc |-> PreHeaderExc(rf)]
    ELSE LET cp == ChunkPart(rf)
         IN  [out |-> Header(rf) \o cp.lines, exc |-> cp.exc]

RIdle ==
    /\ rpc = "idle" /\ reportFile = GoodBase /\ rbatches = 0 /\ rout = <<>>
    /\ rexit = -1 /\ rraised = FALSE /\ rexc = "none"

RInit ==
    /\ rpc = "ready" /\ reportFile \in BaseReports /\ rbatches = 0 /\ rout = <<>>
    /\ rexit = -1 /\ rraised = FALSE /\ rexc = "none"

\* The report written by the comparison step gains a batch of chunk entries.
AddBatch ==
    /\ rpc = "ready"
    /\ reportFile.state = "json" /\ reportFile.top = "object"
    /\ reportFile.chunksKind = "object"
    /\ PreHeaderExc(reportFile) = "none"
    /\ rbatches < MaxBatches
    /\ \E ty \in EntryTypes, n \in BatchSizes :
         reportFile' = [reportFile EXCEPT !.chunks =
            @ \o [i \in 1..n |-> EntryOfType(ty, Len(@) + i)]]
    /\ rbatches' = rbatches + 1
    /\ UNCHANGED <<rpc, rout, rexit, rraised, rexc>>

\* One run of the script, from the open to the end of the module.
Summarize ==
    /\ rpc = "ready"
    /\ LET r == RunReport(reportFile)
       IN  /\ rexc' = r.exc
           /\ IF r.exc = "none"
              THEN rout' = r.out /\ rraised' = FALSE /\ rexit' = 0
              ELSE IF Caught(r.exc)
              THEN rout' = r.out \o <<ErrorLine(r.exc)>> /\ rraised' = FALSE /\ rexit' = 0
              ELSE rout' = r.out \o <<[kind |-> "traceback", exc |-> r.exc]>>
                   /\ rraised' = TRUE /\ rexit' = 1
    /\ rpc' = "done"
    /\ UNCHANGED <<reportFile, rbatches>>

RNext ==
    \/ AddBatch /\ UNCHANGED <<nvars, bvars>>
    \/ Summarize /\ UNCHANGED <<nvars, bvars>>

(***************************************************************************)
(* Specifications.                                                         *)
(***************************************************************************)
InitNormalize == NInit /\ BIdle /\ RIdle
InitBaseline == BInit /\ NIdle /\ RIdle
InitReport == RInit /\ NIdle /\ BIdle

\* normalize() over generated names
SpecNormalize == InitNormalize /\ [][NNext]_vars
\* one run of generate-baseline.py
SpecBaseline == InitBaseline /\ [][BNext]_vars
\* one run of analyze_report.py
SpecReport == InitReport /\ [][RNext]_vars

InitCommands == InitBaseline \/ InitReport
\* one run of either command
SpecCommands == InitCommands /\ [][BNext \/ RNext]_vars

(***************************************************************************)
(* Properties.                                                             *)
(***************************************************************************)

\* C1: normalize is idempotent: normalizing the result of a normalization
\* returns it unchanged, for every file name.
C1_Idempotent == npc = "renormalized" => nout2 = nout

Alnum == Upper \cup Lower \cup Digit
\* The stem ends in -HASH, HASH being the final dash-separated token, of at
\* least six alphanumeric characters; j is the position of its dash.
HashSuffixAt(stem, j) ==
    /\ stem[j] = "-"
    /\ Len(stem) - j >= MinHashLen
    /\ \A i \in (j+1)..Len(stem) : stem[i] \in Alnum
\* What may remain of the stem: all that precedes -HASH, less a one-character
\* marker segment when one precedes the hash.
Basenames(stem, j) ==
    {SubSeq(stem, 1, j - 1)} \cup
    (IF j >= 3 /\ stem[j-2] = "-" /\ stem[j-1] \in MarkerChars
     THEN {SubSeq(stem, 1, j - 3)} ELSE {})

\* C2: normalize removes only the trailing hash: a name whose stem is
\* basename-HASH normalizes to basename + extension, basename kept whole
\* also when it contains dashes.
C2_StripsOnlyHash ==
    npc # "input" =>
        LET stem == splitext(nname)[1]
            ext == splitext(nname)[2]
        IN  \A j \in 1..Len(stem) :
                HashSuffixAt(stem, j) =>
                    nout \in {b \o ext : b \in Basenames(stem, j)}

Succeeded == bpc = "exited" /\ bexit = 0
\* The entries that are regular files with a tracked extension.
Contributing == {n \in DOMAIN dirEntries :
                    dirEntries[n].kind = "file" /\ HasTrackedExt(n)}
RECURSIVE SizeSum(_)
SizeSum(S) ==
    IF S = {} THEN 0
    ELSE LET n == CHOOSE x \in S : TRUE
         IN  dirEntries[n].size + SizeSum(S \ {n})

\* C3: after a successful generation each chunk is the sum of the sizes of
\* exactly the regular files with a tracked extension that normalize to it;
\* other entries contribute to no chunk.
C3_ChunkSums ==
    Succeeded =>
        LET d == baselineFile.of.chunks
        IN  /\ Complete(baselineFile)
            /\ DOMAIN d = {normalize(n) : n \in Contributing}
            /\ \A k \in DOMAIN d :
                 d[k] = SizeSum({n \in Contributing : normalize(n) = k})

C3_Witness ==
    /\ Succeeded
    /\ {FooA, FooB, LibDir} \subseteq DOMAIN dirEntries
    /\ dirEntries[FooA].size = 100
    /\ dirEntries[FooB].size = 50
    /\ baselineFile.of.chunks = (FooJs :> 150)

RECURSIVE WeightedSum(_, _)
\* The sum of a mapping's values, each distinct value counted as often as
\* it occurs.
WeightedSum(f, vals) ==
    IF vals = {} THEN 0
    ELSE LET v == CHOOSE x \in vals : TRUE
         IN  v * Cardinality({k \in DOMAIN f : f[k] = v}) + WeightedSum(f, vals \ {v})
TotalOk(doc) ==
    doc.total = WeightedSum(doc.chunks, {doc.chunks[k] : k \in DOMAIN doc.chunks})

\* C4: every baseline document built or written has total equal to the sum
\* of the values of chunks.
C4_TotalIsSum ==
    /\ TotalOk(baseline)
    /\ baselineFile.kind = "data" => TotalOk(baselineFile.of)

C4_Witness ==
    /\ Succeeded
    /\ Complete(baselineFile)
    /\ Cardinality(DOMAIN baselineFile.of.chunks) = 2
    /\ baselineFile.of.total = 150

\* C5: with the build-output directory missing the run exits 1 and the
\* baseline file is never touched; a successful run exits 0.
C5_MissingDir ==
    /\ assets = "absent" => baselineFile = priorFile
    /\ (bpc = "exited" /\ assets = "absent") => (bexit = 1 /\ ~braised)
    /\ (bpc = "exited" /\ assets = "dir" /\ ~braised) => bexit = 0

C5_Witness ==
    /\ bpc = "exited"
    /\ assets = "absent"
    /\ priorFile # Absent
    /\ bexit = 1

\* C6: the baseline file is always absent, the complete prior baseline or
\* the complete new baseline.
C6_AtomicWrite ==
    \/ baselineFile = Absent
    \/ baselineFile = priorFile /\ Complete(priorFile)
    \/ Complete(baselineFile) /\ baselineFile.of = baseline

ErrorLines(out) == {i \in 1..Len(out) : out[i].kind = "error"}
BaselineFailed == bpc = "exited" /\ (assets # "dir" \/ braised \/ bexit # 0)
ReportFailed == rpc = "done" /\ rexc # "none"

\* C7: each command turns every file-system or parse error into a single
\* diagnostic line and a non-zero exit status, never an unhandled exception.
C7_ErrorsCaughtNonZero ==
    /\ ReportFailed =>
         /\ ~rraised
         /\ Cardinality(ErrorLines(rout)) = 1
         /\ rexit # 0
    /\ BaselineFailed =>
         /\ ~braised
         /\ Len(bout) = 1
         /\ bexit # 0

\* C8 as stated: the summarizer never raises, and the whole output of a
\* failed run is one diagnostic line.
C8_WholeOutputOneLine ==
    ReportFailed => (~rraised /\ Len(rout) = 1 /\ rout[1].kind = "error")

\* A failure met before the first print: the file is missing or is not
\* JSON, the report or one of its sides is not an object, a total is not a
\* number.
FailsBeforeHeader(rf) ==
    \/ rf.state \in {"missing", "invalid"}
    \/ rf.top # "object"
    \/ rf.baseline.kind = "nonobject"
    \/ rf.current.kind = "nonobject"
    \/ (rf.baseline.kind = "object" /\ rf.baseline.totalBytes.t # "int")
    \/ (rf.current.kind = "object" /\ rf.current.totalBytes.t # "int")
HasNonObjectChunk(rf) ==
    \E i \in 1..Len(rf.chunks) : rf.chunks[i].shape # "object"
HeaderKinds == <<"status", "totalBaseline", "totalCurrent", "totalDelta",
                 "blank", "heading">>

\* C8 amended: the summarizer never raises; a failed run prints exactly one
\* diagnostic line, last; it is the whole output when the failure precedes
\* the first print, and follows the six header lines (and the chunk lines
\* printed so far) otherwise.
C8_CaughtOneDiagnostic ==
    rpc = "done" =>
        /\ ~rraised
        /\ rexc # "none" =>
             /\ ErrorLines(rout) = {Len(rout)}
             /\ FailsBeforeHeader(reportFile) => Len(rout) = 1
             /\ ~FailsBeforeHeader(reportFile) =>
                  /\ Len(rout) >= HeaderLines + 1
                  /\ \A i \in 1..HeaderLines : rout[i].kind = HeaderKinds[i]
                  /\ \A i \in (HeaderLines+1)..(Len(rout)-1) : rout[i].kind = "chunk"
                  /\ HasNonObjectChunk(reportFile) => Len(rout) = HeaderLines + 1

C8_Witness ==
    /\ ReportFailed
    /\ ~FailsBeforeHeader(reportFile)
    /\ HasNonObjectChunk(reportFile)
    /\ Len(rout) = HeaderLines + 1

WellFormed(rf) ==
    /\ ~FailsBeforeHeader(rf)
    /\ rf.chunksKind # "nonobject"
    /\ \A i \in 1..Len(rf.chunks) :
         /\ rf.chunks[i].shape = "object"
         /\ rf.chunks[i].bytesOk
         /\ rf.chunks[i].pctOk
PrintedChunks == SelectSeq(rout, LAMBDA l : l.kind = "chunk")
WarnFail(rf) == {i \in 1..Len(rf.chunks) : rf.chunks[i].status \in {"warn", "fail"}}
AbsDelta(e) == Abs(e.currentBytes - e.baselineBytes)

\* C9: for a well-formed report the chunk lines are min(50, n) distinct
\* warn/fail chunks in non-increasing order of absolute byte delta, and no
\* omitted warn/fail chunk has a larger absolute delta than a printed one.
C9_TopFailing ==
    (rpc = "done" /\ WellFormed(reportFile)) =>
        LET cs == reportFile.chunks
            wf == WarnFail(reportFile)
            p == PrintedChunks
            shown == {p[i].name : i \in 1..Len(p)}
        IN  /\ rexc = "none"
            /\ Len(rout) = HeaderLines + Len(p)
            /\ Len(p) = Min(50, Cardinality(wf))
            /\ shown \subseteq wf
            /\ Cardinality(shown) = Len(p)
            /\ \A i \in 1..Len(p) :
                 /\ p[i].status = cs[p[i].name].status
                 /\ p[i].status \in {"warn", "fail"}
                 /\ p[i].baselineBytes = cs[p[i].name].baselineBytes
                 /\ p[i].currentBytes = cs[p[i].name].currentBytes
            /\ \A i \in 1..(Len(p) - 1) : Abs(p[i].delta) >= Abs(p[i+1].delta)
            /\ \A o \in wf \ shown : \A i \in shown : AbsDelta(cs[o]) <= AbsDelta(cs[i])

C9_Witness ==
    /\ rpc = "done"
    /\ WellFormed(reportFile)
    /\ Cardinality(WarnFail(reportFile)) > 50
    /\ Len(PrintedChunks) = 50
    /\ \E i \in 1..Len(reportFile.chunks) : reportFile.chunks[i].status = "pass"
    /\ \E i, j \in 1..50 :
         /\ PrintedChunks[i].delta = -300
         /\ PrintedChunks[j].delta = 100
    /\ \E o \in WarnFail(reportFile) :
         \A i \in 1..50 : PrintedChunks[i].name # o

\* The entries in the reference order of UniverseSeq.
CanonicalListing == SelectSeq(UniverseSeq, LAMBDA n : n \in DOMAIN dirEntries)
RECURSIVE ScanAll(_, _)
ScanAll(ch, lst) ==
    IF lst = <<>> THEN ch
    ELSE ScanAll(ScanStep(ch, Head(lst), dirEntries[Head(lst)]), Tail(lst))

\* C10: whatever the order in which the entries are enumerated, chunks and
\* total are those of the scan in the reference order.
C10_OrderIndependent ==
    (bpc \in {"built", "writing", "written"} \/ Succeeded) =>
        /\ baseline.chunks = ScanAll(EmptyChunks, CanonicalListing)
        /\ baseline.total = SumValues(ScanAll(EmptyChunks, CanonicalListing))

C10_Witness ==
    /\ Succeeded
    /\ Len(listing) = 3
    /\ listing # CanonicalListing
    /\ \E i, j \in 1..Len(listing) :
         i < j /\ listing[i] = FooB /\ listing[j] = FooA
    /\ dirEntries[FooA].size # dirEntries[FooB].size

====
